---- MODULE Spec2Model ----
(***************************************************************************)
(* Model of the Snap_Organizer full-text search service:                   *)
(*   src/src-tauri/src/search_engine.rs  SearchEngine (schema, mutations,  *)
(*                                       search, stats)                    *)
(*   src/src-tauri/src/lib.rs            the tauri commands around the     *)
(*                                       shared Mutex<Option<SearchEngine>>*)
(*                                                                         *)
(* The index library (tantivy) is modelled by what its calls do:           *)
(*   - the committed documents live in the store on disk (meta.json and    *)
(*     segments), in insertion order;                                      *)
(*   - the IndexWriter buffers operations until commit and holds the       *)
(*     directory's writer lock while it exists;                            *)
(*   - the IndexReader is a snapshot of the committed documents; it is     *)
(*     created with the default reload policy, under which a watcher       *)
(*     thread of the library reloads it some time after a commit;          *)
(*   - a term finds documents through the inverted index of its field: a   *)
(*     delete_term on a field that is not indexed in the index's schema    *)
(*     deletes nothing, and a search with a TermQuery on such a field is   *)
(*     an error;                                                           *)
(*   - a tokenizer is looked up by the name the schema gives; a text field *)
(*     whose tokenizer name is not registered gets no term at indexing and *)
(*     makes the query parser fail on every word.                          *)
(*                                                                         *)
(* Texts are sequences of characters, ids are opaque values.  Option<T> is *)
(* a sequence of length 0 or 1.                                            *)
(* In Spec the disk I/O of add_document and commit succeeds; the failures  *)
(* of the environment that Spec covers are those of init.                  *)
(***************************************************************************)
EXTENDS Integers, Sequences, FiniteSets, TLC

VARIABLES
    dirExists,  \* the directory <app data dir>/search_index exists
    store,      \* Option: the index store in that directory [schema, docs]
    writerLock, \* number of IndexWriter objects alive on the directory
    state,      \* SearchEngineState: Option<SearchEngine>
    pending,    \* per caller: Option<SearchEngine> built by init, not yet stored
    ret,        \* the last command that returned: [op, caller, arg, result]
    poisoned,   \* the state's Mutex is poisoned: a holder panicked
    lockHolder, \* Option: the caller between state.0.lock() and its return
    call        \* per caller: the command it is in, [pc, op, arg]

vars == <<dirExists, store, writerLock, state, pending, ret, poisoned,
          lockHolder, call>>

(***************************************************************************)
(* Bounds                                                                  *)
(***************************************************************************)
\* most documents the store holds (add and update are disabled beyond it)
MaxDocs == 2

\* callers that may run init_search_engine concurrently
Callers == {"c1", "c2"}

(***************************************************************************)
(* Helpers on sequences                                                    *)
(***************************************************************************)
Range(s) == {s[i] : i \in 1..Len(s)}

RECURSIVE MapSeq(_, _)
MapSeq(F(_), s) == IF s = <<>> THEN <<>> ELSE <<F(Head(s))>> \o MapSeq(F, Tail(s))

\* Option<T>
None == <<>>
Some(x) == <<x>>
IsSome(o) == o # <<>>

\* Result<T, E>
Ok(v) == [ok |-> TRUE, err |-> "", value |-> v]
Err(msg) == [ok |-> FALSE, err |-> msg, value |-> <<>>]

\* a call that does not return: it panics
Panic(msg) == [ok |-> FALSE, err |-> msg, value |-> <<"panic">>]
IsPanic(r) == ~r.ok /\ r.value # <<>>

(***************************************************************************)
(* Schema  (search_engine.rs 78-152)                                       *)
(***************************************************************************)
FieldNames ==
    {"id", "ocr_text", "memo", "tags", "location_name", "created_at",
     "updated_at", "group_title", "image_path"}

\* STORED: kept in the document store, no inverted index
STORED == [indexed |-> FALSE, tokenizer |-> "none", stored |-> TRUE]

\* TextOptions with set_indexing_options(tokenizer "standard",
\* WithFreqsAndPositions) and set_stored()
TextIndexedStored == [indexed |-> TRUE, tokenizer |-> "standard", stored |-> TRUE]

create_schema ==
    [f \in FieldNames |->
        IF f \in {"ocr_text", "memo", "tags", "location_name", "group_title"}
        THEN TextIndexedStored
        ELSE STORED]

\* the name -> Field handle map; a handle is the field's position in the
\* schema, written here by the field's name
get_fields(schema) == [f \in FieldNames |-> f]

\* A store written with another schema than the compiled one: the same
\* fields in the same order, the id field indexed as one raw term.
OtherSchema ==
    [create_schema EXCEPT
        !["id"] = [indexed |-> TRUE, tokenizer |-> "raw", stored |-> TRUE]]

(***************************************************************************)
(* Texts and tokenizers                                                    *)
(***************************************************************************)
\* A character is written as itself when it is ASCII and by the name of
\* its code point otherwise.  The texts here are over ASCII and these:
\*   U+00C9 / U+00E9  E with acute, capital / small
\*   U+FF21 / U+FF41  full-width A, capital / small (U+FF22 / U+FF42: B)
\*   U+0130           capital I with dot above
\*   U+0307           combining dot above
\*   U+6771           a CJK ideograph
\*   U+0663           Arabic-Indic digit three
UpperCase ==
    <<"A", "B", "C", "D", "E", "F", "G", "H", "I", "J", "K", "L", "M",
      "N", "O", "P", "Q", "R", "S", "T", "U", "V", "W", "X", "Y", "Z",
      "U+00C9", "U+FF21", "U+FF22">>

LowerCase ==
    <<"a", "b", "c", "d", "e", "f", "g", "h", "i", "j", "k", "l", "m",
      "n", "o", "p", "q", "r", "s", "t", "u", "v", "w", "x", "y", "z",
      "U+00E9", "U+FF41", "U+FF42">>

Digits == {"0", "1", "2", "3", "4", "5", "6", "7", "8", "9", "U+0663"}

\* letters without a lower-case or upper-case partner in the table
OtherLetters == {"U+0130", "U+6771"}

RECURSIVE Flatten(_)
Flatten(ss) == IF ss = <<>> THEN <<>> ELSE Head(ss) \o Flatten(Tail(ss))

\* char::to_lowercase: the characters a character lowers to (one, or two
\* for U+0130)
LowerChar(c) ==
    IF c = "U+0130" THEN <<"i", "U+0307">>
    ELSE IF \E k \in 1..Len(UpperCase) : UpperCase[k] = c
    THEN <<LowerCase[CHOOSE k \in 1..Len(UpperCase) : UpperCase[k] = c]>>
    ELSE <<c>>

\* str::to_lowercase
Lower(text) == Flatten(MapSeq(LowerChar, text))

\* char::is_alphanumeric
IsAlphanumeric(c) ==
    c \in Range(UpperCase) \cup Range(LowerCase) \cup Digits \cup OtherLetters

\* the library's word splitter: the maximal runs of alphanumeric
\* characters of the text; cur is the run being read
RECURSIVE SplitWords(_, _)
SplitWords(text, cur) ==
    LET done == IF cur = <<>> THEN <<>> ELSE <<cur>>
    IN IF text = <<>> THEN done
       ELSE IF IsAlphanumeric(Head(text))
       THEN SplitWords(Tail(text), Append(cur, Head(text)))
       ELSE done \o SplitWords(Tail(text), <<>>)

\* the length of a text in bytes (UTF-8)
RECURSIVE Utf8Len(_)
Utf8Len(text) ==
    IF text = <<>> THEN 0
    ELSE (CASE Head(text) \in {"U+00C9", "U+00E9", "U+0130", "U+0307", "U+0663"} -> 2
            [] Head(text) \in {"U+FF21", "U+FF22", "U+FF41", "U+FF42", "U+6771"} -> 3
            [] OTHER -> 1)
         + Utf8Len(Tail(text))

\* the tokenizers the library's TokenizerManager holds by name (of its
\* default set, those that concern the schemas here)
RegisteredTokenizers == {"raw", "default"}

\* The tokens the index makes of a field's text with the tokenizer named
\* in the field's indexing options: "raw" keeps the text as one token;
\* "default" splits it into words, drops the words of 40 bytes and more
\* and lower-cases the others; a name that is not registered ("standard"
\* is none of the library's names) yields no token, so the field's
\* inverted index stays empty.  (A version of the library that refuses
\* such a field instead fails the commit; failing commits are the subject
\* of SpecIo.)
Tokenize(tokenizer, text) ==
    LET NotLong(w) == Utf8Len(w) < 40
    IN IF tokenizer \notin RegisteredTokenizers THEN <<>>
       ELSE IF tokenizer = "raw" THEN <<text>>
       ELSE MapSeq(Lower, SelectSeq(SplitWords(text, <<>>), NotLong))

(***************************************************************************)
(* SearchableItem values used as inputs                                    *)
(***************************************************************************)
ItemAOld ==
    [id |-> "a", ocr_text |-> <<"T", "o", "t", "a", "l">>, memo |-> <<"O", "l", "d">>,
     tags |-> << <<"r", "e">>, <<"f", "o">> >>, location_name |-> None,
     created_at |-> 1, updated_at |-> 1, group_title |-> None,
     image_path |-> None]

ItemANew ==
    [id |-> "a", ocr_text |-> <<"T", "o", "t", "a", "l">>, memo |-> <<"n", "e", "w">>,
     tags |-> << <<"r", "e">>, <<"f", "o">> >>, location_name |-> Some(<<"H", "Q">>),
     created_at |-> 1, updated_at |-> 2, group_title |-> None,
     image_path |-> None]

ItemB ==
    [id |-> "b", ocr_text |-> <<"t", "o", "t", "a", "l">>, memo |-> <<>>,
     tags |-> << <<"t", "r">> >>, location_name |-> None,
     created_at |-> 2, updated_at |-> 2, group_title |-> Some(<<"t", "r", "i", "p">>),
     image_path |-> Some(<<"b", ".", "p", "n", "g">>)]

Items == {ItemAOld, ItemANew, ItemB}

ItemC ==
    [id |-> "c", ocr_text |-> <<"U+00C9", " ", "t", "o">>, memo |-> <<"*", " ", "o", "r", " ", "*">>,
     tags |-> << <<"R", "e">>, <<"*", " ", "O", "r", " ", "*">> >>, location_name |-> None,
     created_at |-> 1, updated_at |-> 1, group_title |-> None,
     image_path |-> None]

Ids == {"a", "b", "c"}

\* Option::unwrap_or_default on an optional text
unwrap_or_default(o) == IF IsSome(o) THEN o[1] ELSE <<>>

\* tags.join(" ")
RECURSIVE Join(_)
Join(ss) ==
    IF ss = <<>> THEN <<>>
    ELSE IF Len(ss) = 1 THEN Head(ss)
    ELSE Head(ss) \o <<" ">> \o Join(Tail(ss))

\* the doc!(...) of add_item (search_engine.rs 155-165): tags joined with
\* " ", absent optionals stored as the empty string
MakeDoc(item) ==
    [id |-> item.id,
     ocr_text |-> item.ocr_text,
     memo |-> item.memo,
     tags |-> Join(item.tags),
     location_name |-> unwrap_or_default(item.location_name),
     created_at |-> item.created_at,
     updated_at |-> item.updated_at,
     group_title |-> unwrap_or_default(item.group_title),
     image_path |-> unwrap_or_default(item.image_path)]

(***************************************************************************)
(* Terms and the inverted index                                            *)
(***************************************************************************)
\* The terms under which document d is found in `field`'s inverted index,
\* for an index with schema `schema`: one per token.  A term's text is a
\* one-element sequence holding the token (or the date).
IndexedTerms(schema, d, field) ==
    IF ~schema[field].indexed THEN {}
    ELSE {<<t>> : t \in Range(Tokenize(schema[field].tokenizer, d[field]))}

\* Term::from_field_text / Term::from_field_date
Term(field, text) == [field |-> field, text |-> text]

TermMatches(schema, d, term) == term.text \in IndexedTerms(schema, d, term.field)

LiveWithId(docs, id) == {i \in 1..Len(docs) : docs[i].id = id}

(***************************************************************************)
(* IndexWriter: buffered operations and commit                             *)
(***************************************************************************)
add_document(writer, doc) == Append(writer, [op |-> "add", doc |-> doc, term |-> Term("id", <<>>)])

delete_term(writer, term) == Append(writer, [op |-> "delete", doc |-> <<>>, term |-> term])

delete_all_documents(writer) == Append(writer, [op |-> "delete_all", doc |-> <<>>, term |-> Term("id", <<>>)])

\* the documents of docs that the term does not find
RECURSIVE RemoveMatching(_, _, _)
RemoveMatching(schema, docs, term) ==
    IF docs = <<>> THEN <<>>
    ELSE IF TermMatches(schema, Head(docs), term)
         THEN RemoveMatching(schema, Tail(docs), term)
         ELSE <<Head(docs)>> \o RemoveMatching(schema, Tail(docs), term)

\* IndexWriter::commit: the buffered operations take effect in the order
\* they were issued; a delete reaches the documents added before it
RECURSIVE commit(_, _, _)
commit(schema, docs, writer) ==
    IF writer = <<>> THEN docs
    ELSE LET o == Head(writer)
             next == CASE o.op = "add" -> Append(docs, o.doc)
                       [] o.op = "delete" -> RemoveMatching(schema, docs, o.term)
                       [] o.op = "delete_all" -> <<>>
         IN commit(schema, next, Tail(writer))

(***************************************************************************)
(* SearchEngine mutations (search_engine.rs 154-187, 317-321).             *)
(* Each takes the engine and the store's committed documents and yields    *)
(* the engine, the committed documents and the Result afterwards.          *)
(***************************************************************************)
add_item(engine, docs, item) ==
    LET w == add_document(engine.writer, MakeDoc(item))
    IN [engine |-> [engine EXCEPT !.writer = <<>>],
        docs |-> commit(engine.index_schema, docs, w),
        result |-> Ok(<<>>)]

\* the first half of update_item as it would be if the delete of the old
\* version were committed on its own
update_item_delete_Commit(engine, docs, item) ==
    LET term == Term(engine.fields["id"], <<item.id>>)
        w == delete_term(engine.writer, term)
    IN [engine |-> [engine EXCEPT !.writer = <<>>],
        docs |-> commit(engine.index_schema, docs, w),
        result |-> Ok(<<>>)]

\* update_item, lines 174-175: the delete of the old version is handed to
\* the writer, which buffers it
update_item_delete(engine, docs, item) ==
    LET term == Term(engine.fields["id"], <<item.id>>)
        w == delete_term(engine.writer, term)
    IN [engine |-> [engine EXCEPT !.writer = w],
        docs |-> docs,
        result |-> Ok(<<>>)]

\* update_item: the buffered delete, then add_item (178) with its commit
update_item(engine, docs, item) ==
    LET deleted == update_item_delete(engine, docs, item)
    IN add_item(deleted.engine, deleted.docs, item)

\* delete_item as it would be if an id without a document were an error
delete_item_NotFound(engine, docs, item_id) ==
    LET term == Term(engine.fields["id"], <<item_id>>)
        w == delete_term(engine.writer, term)
    IN IF LiveWithId(docs, item_id) = {}
       THEN [engine |-> engine, docs |-> docs, result |-> Err("document not found")]
       ELSE [engine |-> [engine EXCEPT !.writer = <<>>],
             docs |-> commit(engine.index_schema, docs, w),
             result |-> Ok(<<>>)]

delete_item(engine, docs, item_id) ==
    LET term == Term(engine.fields["id"], <<item_id>>)
        w == delete_term(engine.writer, term)
    IN [engine |-> [engine EXCEPT !.writer = <<>>],
        docs |-> commit(engine.index_schema, docs, w),
        result |-> Ok(<<>>)]

clear_index(engine, docs) ==
    LET w == delete_all_documents(engine.writer)
    IN [engine |-> [engine EXCEPT !.writer = <<>>],
        docs |-> commit(engine.index_schema, docs, w),
        result |-> Ok(<<>>)]

\* get_stats (323-330): one entry per segment of the reader's snapshot.
\* Every add commits one document, so every live document is its own
\* segment (merging of segments is not modelled).
get_stats(engine) == Ok([i \in 1..Len(engine.reader) |-> 1])

(***************************************************************************)
(* Queries                                                                 *)
(***************************************************************************)
\* the default fields of the QueryParser (search_engine.rs 191-197)
DefaultFields == {"ocr_text", "memo", "tags", "location_name", "group_title"}

AllQuery == [kind |-> "all"]

EmptyQuery == [kind |-> "empty"]

BooleanQuery(clauses) == [kind |-> "bool", clauses |-> clauses]

TermQuery(term) == [kind |-> "term", term |-> term]

Clause(occur, q) == [occur |-> occur, q |-> q]

\* BoostQuery: the query q with its scores multiplied by boost
BoostQuery(q, boost) == [kind |-> "boost", q |-> q, boost |-> boost]

(***************************************************************************)
(* The query grammar of QueryParser::parse_query, as the library's         *)
(* releases with the combinator grammar read it (the releases in which a   *)
(* field with an unknown tokenizer is indexed without terms).  Each        *)
(* reading operator starts at a position of the text and yields            *)
(*   syntax   nothing of its kind can be read there                        *)
(*   literal  a word was read (it needs a tokenizer)                       *)
(*   q        the query read                                               *)
(*   pos      the position after what was read.                            *)
(* Of the grammar these are read: blanks, "*", parenthesised queries,      *)
(* words, ^boost with a whole number, AND, OR, NOT, + and -.  Phrases in   *)
(* quotes, field:, ranges, sets and fractional boosts are not among the    *)
(* inputs.                                                                 *)
(***************************************************************************)
RECURSIVE SkipBlanks(_, _)
SkipBlanks(text, i) ==
    IF i <= Len(text) /\ text[i] = " " THEN SkipBlanks(text, i + 1) ELSE i

\* where the word that starts at position i of the query text ends
RECURSIVE WordEnd(_, _)
WordEnd(text, i) ==
    IF i > Len(text) \/ text[i] \in {" ", "(", ")", "^"} THEN i
    ELSE WordEnd(text, i + 1)

WordAt(text, i) == SubSeq(text, i, WordEnd(text, i) - 1)

AND == <<"A", "N", "D">>

OR == <<"O", "R">>

NOT == <<"N", "O", "T">>

\* the text goes on with the characters of word from position i
StartsWith(text, i, word) ==
    /\ i + Len(word) - 1 <= Len(text)
    /\ SubSeq(text, i, i + Len(word) - 1) = word

AsciiDigits == <<"0", "1", "2", "3", "4", "5", "6", "7", "8", "9">>

\* where the run of ASCII digits that starts at position i ends
RECURSIVE DigitsEnd(_, _)
DigitsEnd(text, i) ==
    IF i <= Len(text) /\ text[i] \in Range(AsciiDigits) THEN DigitsEnd(text, i + 1) ELSE i

\* the number written by a run of ASCII digits
RECURSIVE Number(_)
Number(digits) ==
    IF digits = <<>> THEN 0
    ELSE 10 * Number(SubSeq(digits, 1, Len(digits) - 1))
         + (CHOOSE v \in 0..9 : AsciiDigits[v + 1] = digits[Len(digits)])

Bad == [syntax |-> TRUE, literal |-> FALSE, q |-> EmptyQuery, pos |-> 0]

Read(q, literal, pos) == [syntax |-> FALSE, literal |-> literal, q |-> q, pos |-> pos]

\* the query of the documents that all of qs find (one query: itself)
AndOf(qs) ==
    IF Len(qs) = 1 THEN qs[1]
    ELSE BooleanQuery([k \in 1..Len(qs) |-> Clause("Must", qs[k])])

\* the query of the documents that any of qs finds (one query: itself)
OrOf(qs) ==
    IF Len(qs) = 1 THEN qs[1]
    ELSE BooleanQuery([k \in 1..Len(qs) |-> Clause("Should", qs[k])])

\* the query of a list of operands, each with its sign ("" when it has
\* none): a single operand is the query itself, under a MustNot clause
\* when its sign is -; several make a BooleanQuery in which + is Must,
\* - is MustNot and no sign is Should
Group(operands) ==
    LET occur(sign) == CASE sign = "+" -> "Must" [] sign = "-" -> "MustNot" [] OTHER -> "Should"
    IN IF Len(operands) = 1 /\ operands[1].sign # "-"
       THEN operands[1].q
       ELSE BooleanQuery([k \in 1..Len(operands) |->
                             Clause(occur(operands[k].sign), operands[k].q)])

\* the query in parentheses, from the query read after the "(": the ")"
\* must follow, and there must be something between the two
Close(text, inner) ==
    LET close == SkipBlanks(text, inner.pos)
    IN IF inner.syntax \/ inner.q = EmptyQuery THEN Bad
       ELSE IF close > Len(text) \/ text[close] # ")" THEN Bad
       ELSE [inner EXCEPT !.pos = close + 1]

\* NOT leaf, from the leaf read
Negated(leaf) ==
    IF leaf.syntax THEN Bad
    ELSE [leaf EXCEPT !.q = BooleanQuery(<<Clause("MustNot", leaf.q)>>)]

\* a leaf with its optional ^boost, from the leaf read
Boosted(text, leaf) ==
    LET end == DigitsEnd(text, leaf.pos + 1)
    IN IF leaf.syntax THEN Bad
       ELSE IF leaf.pos > Len(text) \/ text[leaf.pos] # "^" THEN leaf
       ELSE IF end = leaf.pos + 1 THEN Bad
       ELSE [leaf EXCEPT !.q = BoostQuery(leaf.q, Number(SubSeq(text, leaf.pos + 1, end - 1))),
                         !.pos = end]

\* the conjunctions dnf with one more operand q: AND adds it to the last
\* conjunction, OR starts a new one
Joined(op, dnf, q) ==
    IF op = AND THEN [dnf EXCEPT ![Len(dnf)] = Append(@, q)]
    ELSE Append(dnf, <<q>>)

\* the list of operands made of a signed leaf and the operands after it
Cons(sign, leaf, rest) ==
    IF rest.syntax THEN Bad
    ELSE Read(<<[sign |-> sign, q |-> leaf.q]>> \o rest.q,
              leaf.literal \/ rest.literal, rest.pos)

\* the query read from a position: the binary expression if one can be
\* read there, else the list of operands (nothing: the EmptyQuery)
Choice(boolean_expr, leaves) ==
    IF ~boolean_expr.syntax THEN boolean_expr
    ELSE IF leaves.syntax THEN Bad
    ELSE IF leaves.q = <<>> THEN [leaves EXCEPT !.q = EmptyQuery]
    ELSE [leaves EXCEPT !.q = Group(leaves.q)]

RECURSIVE ParseLeaf(_, _)
RECURSIVE ParseBoosted(_, _)
RECURSIVE ParseBinary(_, _, _, _)
RECURSIVE BinaryRest(_, _, _, _, _)
RECURSIVE BooleanExpr(_, _)
RECURSIVE ParseOperands(_, _)
RECURSIVE OperandsRest(_, _, _)
RECURSIVE ParseAst(_, _)

\* a leaf at position i: "(" query ")", "*", NOT blanks leaf, or a word.
\* A word starts with no blank, "-", "^", "(" or ")" and ends before the
\* next blank, "^", "(" or ")"; OR and NOT are no words (AND is one).
ParseLeaf(text, i) ==
    IF i > Len(text) \/ text[i] \in {" ", ")", "^", "-"} THEN Bad
    ELSE IF text[i] = "(" THEN Close(text, ParseAst(text, i + 1))
    ELSE IF text[i] = "*" THEN Read(AllQuery, FALSE, i + 1)
    ELSE IF WordAt(text, i) = OR THEN Bad
    ELSE IF WordAt(text, i) = NOT
    THEN IF SkipBlanks(text, WordEnd(text, i)) = WordEnd(text, i) THEN Bad
         ELSE Negated(ParseLeaf(text, SkipBlanks(text, WordEnd(text, i))))
    ELSE Read([kind |-> "literal", word |-> WordAt(text, i)], TRUE, WordEnd(text, i))

\* a leaf with an optional ^boost
ParseBoosted(text, i) == Boosted(text, ParseLeaf(text, i))

\* The operators and operands of a binary expression from position i (no
\* blank there), where dnf is the list of the conjunctions read so far:
\* the query is their disjunction.  An operator is the characters AND or
\* OR, with or without blanks around them; at least one must be read, and
\* one that is begun (an A or an O) must be read with its operand.
ParseBinary(text, i, dnf, literal) ==
    IF StartsWith(text, i, AND) \/ StartsWith(text, i, OR)
    THEN LET op == IF StartsWith(text, i, AND) THEN AND ELSE OR
         IN BinaryRest(text, op, dnf, literal,
                       ParseBoosted(text, SkipBlanks(text, i + Len(op))))
    ELSE IF i <= Len(text) /\ text[i] \in {"A", "O"} THEN Bad
    ELSE IF Len(dnf) = 1 /\ Len(dnf[1]) = 1 THEN Bad
    ELSE Read(OrOf([k \in 1..Len(dnf) |-> AndOf(dnf[k])]), literal, i)

\* the rest of a binary expression after the operator op and its operand
BinaryRest(text, op, dnf, literal, operand) ==
    IF operand.syntax THEN Bad
    ELSE ParseBinary(text, SkipBlanks(text, operand.pos), Joined(op, dnf, operand.q),
                     literal \/ operand.literal)

\* a binary expression, from its first leaf
BooleanExpr(text, first) ==
    IF first.syntax THEN Bad
    ELSE ParseBinary(text, SkipBlanks(text, first.pos), << <<first.q>> >>, first.literal)

\* a list of operands from position i (no blank there), each a boosted
\* leaf with an optional sign right before it, up to the end of the text
\* or a ")"; q is the list
ParseOperands(text, i) ==
    IF i > Len(text) \/ text[i] = ")" THEN Read(<<>>, FALSE, i)
    ELSE IF text[i] \in {"+", "-"}
    THEN OperandsRest(text, text[i], ParseBoosted(text, i + 1))
    ELSE OperandsRest(text, "", ParseBoosted(text, i))

\* the list of operands that starts with a signed leaf
OperandsRest(text, sign, leaf) ==
    IF leaf.syntax THEN Bad
    ELSE Cons(sign, leaf, ParseOperands(text, SkipBlanks(text, leaf.pos)))

\* a query from position i (no blank there)
Ast(text, i) ==
    Choice(BooleanExpr(text, ParseBoosted(text, i)), ParseOperands(text, i))

\* a query from position i
ParseAst(text, i) == Ast(text, SkipBlanks(text, i))

\* the query has excluding clauses only
RECURSIVE all_negative(_)
all_negative(q) ==
    CASE q.kind = "boost" -> all_negative(q.q)
      [] q.kind = "bool" ->
            \A k \in 1..Len(q.clauses) :
                q.clauses[k].occur = "MustNot" \/ all_negative(q.clauses[k].q)
      [] OTHER -> FALSE

\* The query of the text read.  What the grammar does not take to the end
\* of the text is a syntax error (a "(" without its ")", a ")" without its
\* "(", empty parentheses, an operator without operand, a sign before a
\* blank).  A word is then turned into terms by the tokenizer named in
\* each default field's indexing options; that name is "standard" in
\* every schema of the index, the library holds no tokenizer of that name,
\* and the parse is an error.  A query of excluding clauses only is
\* refused last.
compute_logical_ast(text, ast) ==
    IF ast.syntax \/ SkipBlanks(text, ast.pos) <= Len(text) THEN Err("SyntaxError")
    ELSE IF ast.literal THEN Err("UnknownTokenizer")
    ELSE IF all_negative(ast.q) THEN Err("AllButQueryForbidden")
    ELSE Ok(ast.q)

\* QueryParser::parse_query of the parser built for_index over the default
\* fields
parse_query(text) == compute_logical_ast(text, ParseAst(text, 1))

RECURSIVE SumOver(_, _)
SumOver(F(_), S) ==
    IF S = {} THEN 0
    ELSE LET x == CHOOSE y \in S : TRUE IN F(x) + SumOver(F, S \ {x})

RECURSIVE Matches(_, _, _)
Matches(schema, q, d) ==
    CASE q.kind = "all" -> TRUE
      [] q.kind = "empty" -> FALSE
      [] q.kind = "term" -> TermMatches(schema, d, q.term)
      [] q.kind = "boost" -> Matches(schema, q.q, d)
      [] q.kind = "bool" ->
            LET must == {i \in 1..Len(q.clauses) : q.clauses[i].occur = "Must"}
                should == {i \in 1..Len(q.clauses) : q.clauses[i].occur = "Should"}
                must_not == {i \in 1..Len(q.clauses) : q.clauses[i].occur = "MustNot"}
            IN /\ \A i \in must : Matches(schema, q.clauses[i].q, d)
               /\ must = {} => \E i \in should : Matches(schema, q.clauses[i].q, d)
               /\ \A i \in must_not : ~Matches(schema, q.clauses[i].q, d)

\* The relevance score, higher is better.  AllQuery scores every document
\* 1.0; a BooleanQuery adds the scores of its matching Must and Should
\* clauses; a BoostQuery multiplies the score by its boost.  The only
\* terms with postings are whole raw values (one token per document, so
\* every document a term finds has the same term frequency and field
\* length and hence the same score, written 1).
RECURSIVE Score(_, _, _)
Score(schema, q, d) ==
    CASE q.kind = "all" -> 1
      [] q.kind = "empty" -> 0
      [] q.kind = "term" -> IF TermMatches(schema, d, q.term) THEN 1 ELSE 0
      [] q.kind = "boost" -> q.boost * Score(schema, q.q, d)
      [] q.kind = "bool" ->
            LET hit == {i \in 1..Len(q.clauses) :
                           /\ q.clauses[i].occur # "MustNot"
                           /\ Matches(schema, q.clauses[i].q, d)}
                sc(i) == Score(schema, q.clauses[i].q, d)
            IN SumOver(sc, hit)

\* TopDocs::with_limit(limit): the positions of the matching documents of
\* the snapshot, best score first, equal scores in document order
RECURSIVE TopDocs(_, _, _, _, _)
TopDocs(schema, q, docs, cands, limit) ==
    IF cands = {} \/ limit = 0 THEN <<>>
    ELSE LET best == CHOOSE i \in cands : \A j \in cands :
                        \/ Score(schema, q, docs[i]) > Score(schema, q, docs[j])
                        \/ /\ Score(schema, q, docs[i]) = Score(schema, q, docs[j])
                           /\ i <= j
         IN <<best>> \o TopDocs(schema, q, docs, cands \ {best}, limit - 1)

(***************************************************************************)
(* Highlights and matched fields (search_engine.rs 279-315)                *)
(***************************************************************************)
\* str::contains: needle occurs in hay as a run of consecutive characters
Contains(hay, needle) ==
    \E i \in 0..(Len(hay) - Len(needle)) :
        \A k \in 1..Len(needle) : hay[i + k] = needle[k]

\* the test as it would be without the lower-casing
ContainsIgnoreCase_Exact(text_value, query) == Contains(text_value, query)

\* text_value.to_lowercase().contains(&query.to_lowercase())
ContainsIgnoreCase(text_value, query) ==
    Contains(Lower(text_value), Lower(query))

RECURSIVE FilterFields(_, _, _)
FilterFields(names, doc, query) ==
    IF names = <<>> THEN <<>>
    ELSE (IF ContainsIgnoreCase(doc[Head(names)], query) THEN <<Head(names)>> ELSE <<>>)
         \o FilterFields(Tail(names), doc, query)

\* one entry "<field>: <text>" per highlightable field holding the query
generate_highlights(doc, query) ==
    LET fields_to_highlight == <<"ocr_text", "memo", "location_name", "group_title">>
        entry(f) == <<f, doc[f]>>
    IN MapSeq(entry, FilterFields(fields_to_highlight, doc, query))

get_matched_fields(doc, query) ==
    LET fields_to_check == <<"ocr_text", "memo", "tags", "location_name", "group_title">>
    IN FilterFields(fields_to_check, doc, query)

(***************************************************************************)
(* SearchEngine::search (search_engine.rs 189-277)                         *)
(***************************************************************************)
unwrap_or(o, default) == IF IsSome(o) THEN o[1] ELSE default

\* The main query from the parse of the query text.  With fields set: one
\* clause per known field name, each the same parse of the query against
\* the default fields; a parse error adds no clause (`if let Ok`, 204).
\* With fields unset: the parse itself, error included (`?`, 211).
FieldsQuery(engine, query, parsed) ==
    LET IsKnown(field_name) == field_name \in DOMAIN engine.fields
        known == SelectSeq(unwrap_or(query.fields, <<>>), IsKnown)
        field_queries ==
            IF parsed.ok
            THEN [i \in 1..Len(known) |-> Clause("Should", parsed.value)]
            ELSE <<>>
    IN IF IsSome(query.fields)
       THEN Ok(BooleanQuery(field_queries))
       ELSE parsed

\* main_query as it would be if an unknown field name were an error
main_query_Strict(engine, query) ==
    IF /\ IsSome(query.fields)
       /\ \E i \in 1..Len(query.fields[1]) : query.fields[1][i] \notin DOMAIN engine.fields
    THEN Err("unknown field")
    ELSE FieldsQuery(engine, query, parse_query(query.query))

\* the main query (search_engine.rs 200-212): the query, or the parse error
\* that ends the search
main_query(engine, query) == FieldsQuery(engine, query, parse_query(query.query))

\* Query::weight: a TermQuery on a field without an inverted index is a
\* SchemaError ("Field ... is not indexed"), whatever the snapshot holds
RECURSIVE SchemaError(_, _)
SchemaError(schema, q) ==
    CASE q.kind = "term" -> ~schema[q.term.field].indexed
      [] q.kind = "boost" -> SchemaError(schema, q.q)
      [] q.kind = "bool" ->
            \E i \in 1..Len(q.clauses) : SchemaError(schema, q.clauses[i].q)
      [] OTHER -> FALSE

\* the search from its main query on (search_engine.rs 214-276)
FilterAndCollect(engine, query, main) ==
    LET searcher == engine.reader
        schema == engine.index_schema
        date_from_filter ==
            IF IsSome(query.date_from)
            THEN <<Clause("Must", TermQuery(Term(engine.fields["created_at"], <<query.date_from[1]>>)))>>
            ELSE <<>>
        date_to_filter ==
            IF IsSome(query.date_to)
            THEN <<Clause("Must", TermQuery(Term(engine.fields["created_at"], <<query.date_to[1]>>)))>>
            ELSE <<>>
        tags == unwrap_or(query.tags, <<>>)
        tag_filter ==
            [i \in 1..Len(tags) |-> Clause("Must", TermQuery(Term(engine.fields["tags"], <<tags[i]>>)))]
        filters == date_from_filter \o date_to_filter \o tag_filter
        final_query ==
            IF filters = <<>> THEN main.value
            ELSE BooleanQuery(<<Clause("Must", main.value)>> \o filters)
        limit == unwrap_or(query.limit, 20)
        cands == {i \in 1..Len(searcher) : Matches(schema, final_query, searcher[i])}
        top_docs == TopDocs(schema, final_query, searcher, cands, limit)
        \* searcher.doc(doc_address)? (line 257) succeeds here; search_io
        \* has its failure
        result(i) ==
            [id |-> searcher[i].id,
             score |-> Score(schema, final_query, searcher[i]),
             highlights |-> generate_highlights(searcher[i], query.query),
             matched_fields |-> get_matched_fields(searcher[i], query.query)]
    IN IF ~main.ok
       THEN Err(main.err)                                    \* line 211
       ELSE IF limit = 0
       THEN Panic("Limit must be strictly greater than 0.")  \* TopDocs::with_limit
       ELSE IF SchemaError(schema, final_query)
       THEN Err("SchemaError")                               \* line 253
       ELSE Ok(MapSeq(result, top_docs))

search(engine, query) == FilterAndCollect(engine, query, main_query(engine, query))

\* the ids of a successful search's results, in order
ResultIds(result) == [i \in 1..Len(result.value) |-> result.value[i].id]

\* SearchQuery values used as inputs
SearchQuery(text, fields, tags, limit) ==
    [query |-> text, fields |-> fields, date_from |-> None, date_to |-> None,
     tags |-> tags, limit |-> limit]

SearchQueries ==
    {SearchQuery(<<"o", "l", "d">>, None, None, None),
     SearchQuery(<<"n", "e", "w">>, None, None, None),
     SearchQuery(<<"*">>, None, None, Some(1)),
     SearchQuery(<<"(">>, None, None, None),
     SearchQuery(<<"(">>, Some(<<"memo">>), None, None),
     SearchQuery(<<"*">>, Some(<<"memo", "nonexistent_field">>), Some(<< <<"r", "e">> >>), None)}

(***************************************************************************)
(* Opening the index (search_engine.rs 56-76)                              *)
(***************************************************************************)
\* Index::open_in_dir: reads the store's meta.json, which holds the schema
\* the store was created with
open_in_dir(dir, st) ==
    IF ~dir THEN Err("directory does not exist")
    ELSE IF ~IsSome(st) THEN Err("meta.json does not exist")
    ELSE Ok(st)

\* Index::create_in_dir: a new empty store in an existing directory
create_in_dir(dir, st, schema) ==
    IF ~dir THEN Err("directory does not exist")
    ELSE IF IsSome(st) THEN Err("index already exists")
    ELSE Ok(Some([schema |-> schema, docs |-> <<>>]))

\* Index::reader: a snapshot of the committed documents
index_reader(st, fault) ==
    IF fault = "reader" THEN Err("io error") ELSE Ok(st[1].docs)

\* Index::writer as it would be without the directory lock
index_writer_NoLock(lock) == Ok(<<>>)

\* Index::writer: takes the directory's writer lock, at most one holder
index_writer(lock) ==
    IF lock > 0 THEN Err("LockBusy") ELSE Ok(<<>>)

\* SearchEngine::new(index_path).  dir: index_path.exists(); st: the store
\* in it; lock: the writer lock's holders.  Yields the Result and the store
\* and lock afterwards.
new(dir, st, lock, fault) ==
    LET schema == create_schema
        fields == get_fields(schema)
        index == IF dir THEN open_in_dir(dir, st) ELSE create_in_dir(dir, st, schema)
        st1 == IF index.ok THEN index.value ELSE st
        reader == index_reader(st1, fault)
        writer == index_writer(lock)
    IN IF ~index.ok THEN [result |-> Err(index.err), store |-> st1, lock |-> lock]
       ELSE IF ~reader.ok THEN [result |-> Err(reader.err), store |-> st1, lock |-> lock]
       ELSE IF ~writer.ok THEN [result |-> Err(writer.err), store |-> st1, lock |-> lock]
       ELSE [result |-> Ok([index_schema |-> st1[1].schema,
                            reader |-> reader.value,
                            writer |-> writer.value,
                            schema |-> schema,
                            fields |-> fields]),
             store |-> st1,
             lock |-> lock + 1]

(***************************************************************************)
(* State machine                                                           *)
(***************************************************************************)
\* no command returned in this step
NoReturn == [op |-> "none", caller |-> "", arg |-> <<>>, result |-> Ok(<<>>)]

Return(op, caller, arg, result) ==
    [op |-> op, caller |-> caller, arg |-> <<arg>>, result |-> result]

\* a caller that is in no command
Idle == [pc |-> "idle", op |-> "none", arg |-> <<>>]

\* what the disk may hold when the process starts
InitialStores ==
    {None,
     Some([schema |-> create_schema, docs |-> <<>>]),
     Some([schema |-> OtherSchema, docs |-> <<>>])}

Init ==
    /\ dirExists \in BOOLEAN
    /\ store \in InitialStores
    /\ IsSome(store) => dirExists
    /\ writerLock = 0
    /\ state = None
    /\ pending = [c \in Callers |-> None]
    /\ ret = NoReturn
    /\ poisoned = FALSE
    /\ lockHolder = None
    /\ call = [c \in Callers |-> Idle]

\* failures of the environment during init
Faults == {"none", "app_data_dir", "create_dir_all", "reader"}

\* init_search_engine as it would be if it emptied the state before
\* building the engine
init_search_engine_new_Reset(c, fault) ==
    /\ pending[c] = None
    /\ fault = "create_dir_all" => ~dirExists
    /\ IF fault = "app_data_dir" THEN
            /\ ret' = Return("init", c, <<>>, Err("App data directory not found"))
            /\ UNCHANGED <<dirExists, store, writerLock, state, pending, poisoned>>
       ELSE IF fault = "create_dir_all" THEN
            /\ ret' = Return("init", c, <<>>, Err("create_dir_all failed"))
            /\ UNCHANGED <<dirExists, store, writerLock, state, pending, poisoned>>
       ELSE LET r == new(TRUE, store, writerLock, fault) IN
            /\ dirExists' = TRUE
            /\ store' = r.store
            /\ writerLock' = r.lock
            /\ state' = None
            /\ UNCHANGED poisoned
            /\ IF r.result.ok
               THEN /\ pending' = [pending EXCEPT ![c] = Some(r.result.value)]
                    /\ ret' = NoReturn
               ELSE /\ UNCHANGED pending
                    /\ ret' = Return("init", c, <<>>, Err(r.result.err))

\* init_search_engine, lines 20-28: everything before the state is locked.
\* On success the caller holds the new engine, not yet stored.
init_search_engine_new(c, fault) ==
    /\ pending[c] = None
    /\ fault = "create_dir_all" => ~dirExists
    /\ IF fault = "app_data_dir" THEN
            /\ ret' = Return("init", c, <<>>, Err("App data directory not found"))
            /\ UNCHANGED <<dirExists, store, writerLock, state, pending, poisoned>>
       ELSE IF fault = "create_dir_all" THEN
            /\ ret' = Return("init", c, <<>>, Err("create_dir_all failed"))
            /\ UNCHANGED <<dirExists, store, writerLock, state, pending, poisoned>>
       ELSE LET r == new(TRUE, store, writerLock, fault) IN
            /\ dirExists' = TRUE
            /\ store' = r.store
            /\ writerLock' = r.lock
            /\ UNCHANGED <<state, poisoned>>
            /\ IF r.result.ok
               THEN /\ pending' = [pending EXCEPT ![c] = Some(r.result.value)]
                    /\ ret' = NoReturn
               ELSE /\ UNCHANGED pending
                    /\ ret' = Return("init", c, <<>>, Err(r.result.err))

\* init_search_engine, lines 29-31: the engine replaces the state's content
\* (an engine it replaces is dropped, and its writer with it)
init_search_engine_store(c) ==
    /\ IsSome(pending[c])
    /\ pending' = [pending EXCEPT ![c] = None]
    /\ IF poisoned
       THEN \* lock().unwrap() panics; the new engine is dropped
            /\ ret' = Return("init", c, <<>>, Panic("PoisonError"))
            /\ writerLock' = writerLock - 1
            /\ UNCHANGED state
       ELSE /\ state' = pending[c]
            /\ writerLock' = IF IsSome(state) THEN writerLock - 1 ELSE writerLock
            /\ ret' = Return("init", c, <<>>, Ok(<<>>))
    /\ UNCHANGED <<dirExists, store, poisoned>>

\* engine.as_mut().ok_or("Search engine not initialized")
ok_or_not_initialized(st) ==
    IF IsSome(st) THEN Ok(st[1]) ELSE Err("Search engine not initialized")

\* a mutation's outcome r = [engine, docs, result] put in place
Apply(op, arg, r) ==
    /\ state' = Some(r.engine)
    /\ store' = Some([store[1] EXCEPT !.docs = r.docs])
    /\ ret' = Return(op, "", arg, r.result)
    /\ UNCHANGED <<dirExists, writerLock, pending, poisoned>>

\* state.0.lock().unwrap() on a poisoned Mutex panics
Panicked(op, arg) ==
    /\ ret' = Return(op, "", arg, Panic("PoisonError"))
    /\ UNCHANGED <<dirExists, store, writerLock, state, pending, poisoned>>

Fail(op, arg, e) ==
    /\ ret' = Return(op, "", arg, Err(e.err))
    /\ UNCHANGED <<dirExists, store, writerLock, state, pending, poisoned>>

add_item_to_index(item) ==
    LET search_engine == ok_or_not_initialized(state) IN
    IF poisoned THEN Panicked("add", item)
    ELSE IF ~search_engine.ok THEN Fail("add", item, search_engine)
    ELSE /\ Len(store[1].docs) < MaxDocs
         /\ Apply("add", item, add_item(search_engine.value, store[1].docs, item))

update_item_in_index(item) ==
    LET search_engine == ok_or_not_initialized(state) IN
    IF poisoned THEN Panicked("update", item)
    ELSE IF ~search_engine.ok THEN Fail("update", item, search_engine)
    ELSE /\ Len(store[1].docs) < MaxDocs
         /\ Apply("update", item, update_item(search_engine.value, store[1].docs, item))

delete_item_from_index(item_id) ==
    LET search_engine == ok_or_not_initialized(state) IN
    IF poisoned THEN Panicked("delete", item_id)
    ELSE IF ~search_engine.ok THEN Fail("delete", item_id, search_engine)
    ELSE Apply("delete", item_id, delete_item(search_engine.value, store[1].docs, item_id))

\* a panic inside search unwinds through the MutexGuard and poisons the Mutex
search_items(query) ==
    LET search_engine == ok_or_not_initialized(state) IN
    IF poisoned THEN Panicked("search", query)
    ELSE IF ~search_engine.ok THEN Fail("search", query, search_engine)
    ELSE /\ ret' = Return("search", "", query, search(search_engine.value, query))
         /\ poisoned' = IsPanic(ret'.result)
         /\ UNCHANGED <<dirExists, store, writerLock, state, pending>>

clear_search_index ==
    LET search_engine == ok_or_not_initialized(state) IN
    IF poisoned THEN Panicked("clear", <<>>)
    ELSE IF ~search_engine.ok THEN Fail("clear", <<>>, search_engine)
    ELSE Apply("clear", <<>>, clear_index(search_engine.value, store[1].docs))

\* get_search_stats as it would be if a missing engine gave empty statistics
get_search_stats_Empty ==
    /\ ret' = Return("stats", "", <<>>,
                     IF IsSome(state) THEN get_stats(state[1]) ELSE Ok(<<>>))
    /\ UNCHANGED <<dirExists, store, writerLock, state, pending, poisoned>>

get_search_stats ==
    LET search_engine == ok_or_not_initialized(state) IN
    IF poisoned THEN Panicked("stats", <<>>)
    ELSE IF ~search_engine.ok THEN Fail("stats", <<>>, search_engine)
    ELSE /\ ret' = Return("stats", "", <<>>, get_stats(search_engine.value))
         /\ UNCHANGED <<dirExists, store, writerLock, state, pending, poisoned>>

\* The reader's reload after a commit, run by the library's watcher thread
\* at a time of its own: the snapshot becomes the committed documents.
ReaderReload ==
    /\ IsSome(state)
    /\ state[1].reader # store[1].docs
    /\ state' = Some([state[1] EXCEPT !.reader = store[1].docs])
    /\ ret' = NoReturn
    /\ UNCHANGED <<dirExists, store, writerLock, pending, poisoned>>

\* In Spec every command runs from its lock() to its return in one step.
Next ==
    \/ \E c \in Callers, fault \in Faults :
          init_search_engine_new(c, fault) /\ UNCHANGED <<lockHolder, call>>
    \/ \E c \in Callers :
          init_search_engine_store(c) /\ UNCHANGED <<lockHolder, call>>
    \/ \E item \in Items :
          add_item_to_index(item) /\ UNCHANGED <<lockHolder, call>>
    \/ \E item \in Items :
          update_item_in_index(item) /\ UNCHANGED <<lockHolder, call>>
    \/ \E item_id \in Ids :
          delete_item_from_index(item_id) /\ UNCHANGED <<lockHolder, call>>
    \/ \E query \in SearchQueries :
          search_items(query) /\ UNCHANGED <<lockHolder, call>>
    \/ clear_search_index /\ UNCHANGED <<lockHolder, call>>
    \/ get_search_stats /\ UNCHANGED <<lockHolder, call>>
    \/ ReaderReload /\ UNCHANGED <<lockHolder, call>>

Spec == Init /\ [][Next]_vars

(***************************************************************************)
(* Searches over committed snapshots                                       *)
(***************************************************************************)
\* the longest snapshot a search is run on
MaxSnapshot == 2

SearchItems == Items \cup {ItemC}

\* the committed documents left by up to MaxSnapshot successful adds
Snapshots ==
    UNION {[1..n -> {MakeDoc(item) : item \in SearchItems}] : n \in 0..MaxSnapshot}

DateQuery(text, date_from, date_to) ==
    [query |-> text, fields |-> None, date_from |-> date_from, date_to |-> date_to,
     tags |-> None, limit |-> None]

FilterQueries ==
    {SearchQuery(<<"*">>, None, Some(tags), None) :
        tags \in {<< <<"r", "e">> >>, << <<"R", "e">> >>,
                  << <<"r", "e">>, <<"t", "r">> >>, << <<"r", "e">>, <<"f", "o">> >>}}
    \cup {SearchQuery(<<"*">>, None, None, limit) :
             limit \in {None, Some(0), Some(1), Some(2)}}
    \cup {SearchQuery(text, Some(fields), None, None) :
             text \in {<<"*">>, <<"t", "o", "t", "a", "l">>, <<"(">>},
             fields \in {<<"memo">>, <<"memo", "nonexistent_field">>,
                         <<"nonexistent_field">>, <<"ocr_text">>,
                         <<"ocr_text", "nonexistent_field">>, <<"image_path">>}}
    \cup {SearchQuery(text, None, None, None) :
             text \in {<<"(">>, <<>>, <<"t", "o", "t", "a", "l">>,
                       <<"T", "o", "t", "a", "l">>, <<"U+00E9">>,
                       <<" ", "*", " ">>, <<"(", "*", ")">>, <<"*", " ", "*">>,
                       <<"*", ")">>, <<"(", ")">>, <<"*", "^", "2">>,
                       <<"*", " ", "O", "R", " ", "*">>,
                       <<"*", " ", "A", "N", "D", " ", "*">>,
                       <<"N", "O", "T", " ", "*">>, <<"+", "*">>,
                       <<"-", "*">>, <<"+", " ", "*">>, <<"*", "O", "R", "*">>,
                       <<"*", " ", "A", "N", "D">>}}
    \cup {DateQuery(<<"*">>, date_from, date_to) :
             date_from \in {None, Some(1), Some(2)}, date_to \in {None, Some(1)}}

\* an engine that init has built over a store holding a snapshot, the
\* reader reloaded
InitSearch ==
    /\ dirExists = TRUE
    /\ store \in {Some([schema |-> create_schema, docs |-> docs]) : docs \in Snapshots}
    /\ writerLock = 1
    /\ state = Some(new(TRUE, store, 0, "none").result.value)
    /\ pending = [c \in Callers |-> None]
    /\ ret = NoReturn
    /\ poisoned = FALSE
    /\ lockHolder = None
    /\ call = [c \in Callers |-> Idle]

NextSearch ==
    \E query \in FilterQueries :
        search_items(query) /\ UNCHANGED <<lockHolder, call>>

SpecSearch == InitSearch /\ [][NextSearch]_vars

(***************************************************************************)
(* The commands step by step: the Mutex of SearchEngineState held from     *)
(* lock() to the return, update_item in its two halves, and the exit of    *)
(* the process                                                             *)
(***************************************************************************)
LockItems == {ItemAOld, ItemANew}

LockQueries == {SearchQuery(<<"*">>, None, None, None), SearchQuery(<<"n", "e", "w">>, None, None, None)}

\* the invocations of the commands that take the lock
Requests ==
    {[op |-> "add", arg |-> <<item>>] : item \in LockItems}
    \cup {[op |-> "update", arg |-> <<item>>] : item \in LockItems}
    \cup {[op |-> "delete", arg |-> <<"a">>]}
    \cup {[op |-> "search", arg |-> <<query>>] : query \in LockQueries}
    \cup {[op |-> "clear", arg |-> << <<>> >>], [op |-> "stats", arg |-> << <<>> >>]}

\* the positions of a command between its lock() and the drop of the guard
Inside == {"locked", "deleted"}

\* the runtime starts a command for a caller; commands of different
\* callers run concurrently
Invoke(c, req) ==
    /\ call[c] = Idle
    /\ pending[c] = None
    /\ call' = [call EXCEPT ![c] = [pc |-> "called", op |-> req.op, arg |-> req.arg]]
    /\ ret' = NoReturn
    /\ UNCHANGED <<dirExists, store, writerLock, state, pending, poisoned, lockHolder>>

\* lock as it would be if it did not wait for the holder of the Mutex
lock_NoWait(c) ==
    /\ call[c].pc = "called"
    /\ lockHolder' = Some(c)
    /\ call' = [call EXCEPT ![c].pc = "locked"]
    /\ ret' = NoReturn
    /\ UNCHANGED <<dirExists, store, writerLock, state, pending, poisoned>>

\* state.0.lock().unwrap() of a command: waits until the Mutex is free,
\* panics if it is poisoned
lock(c) ==
    /\ call[c].pc = "called"
    /\ lockHolder = None
    /\ IF poisoned
       THEN /\ ret' = [op |-> call[c].op, caller |-> c, arg |-> call[c].arg,
                       result |-> Panic("PoisonError")]
            /\ call' = [call EXCEPT ![c] = Idle]
            /\ UNCHANGED lockHolder
       ELSE /\ lockHolder' = Some(c)
            /\ call' = [call EXCEPT ![c].pc = "locked"]
            /\ ret' = NoReturn
    /\ UNCHANGED <<dirExists, store, writerLock, state, pending, poisoned>>

\* the command returns r: the guard is dropped
Release(c, r) ==
    /\ lockHolder' = None
    /\ call' = [call EXCEPT ![c] = Idle]
    /\ ret' = [op |-> call[c].op, caller |-> c, arg |-> call[c].arg, result |-> r]

\* a mutation's outcome r = [engine, docs, result] put in place, and the return
Commit(c, r) ==
    /\ state' = Some(r.engine)
    /\ store' = Some([store[1] EXCEPT !.docs = r.docs])
    /\ Release(c, r.result)
    /\ UNCHANGED poisoned

\* the body of a command after lock(): ok_or, then the engine's method
\* (for update the first half, up to the buffered delete)
run(c) ==
    /\ call[c].pc = "locked"
    /\ LET op == call[c].op
           arg == call[c].arg[1]
           search_engine == ok_or_not_initialized(state)
       IN IF ~search_engine.ok
          THEN Release(c, Err(search_engine.err)) /\ UNCHANGED <<state, store, poisoned>>
          ELSE CASE op = "add" ->
                      /\ Len(store[1].docs) < MaxDocs
                      /\ Commit(c, add_item(search_engine.value, store[1].docs, arg))
                 [] op = "update" ->
                      LET r == update_item_delete(search_engine.value, store[1].docs, arg) IN
                      /\ Len(store[1].docs) < MaxDocs
                      /\ state' = Some(r.engine)
                      /\ store' = Some([store[1] EXCEPT !.docs = r.docs])
                      /\ call' = [call EXCEPT ![c].pc = "deleted"]
                      /\ ret' = NoReturn
                      /\ UNCHANGED <<lockHolder, poisoned>>
                 [] op = "delete" ->
                      Commit(c, delete_item(search_engine.value, store[1].docs, arg))
                 [] op = "clear" ->
                      Commit(c, clear_index(search_engine.value, store[1].docs))
                 [] op = "search" ->
                      /\ Release(c, search(search_engine.value, arg))
                      /\ poisoned' = IsPanic(ret'.result)
                      /\ UNCHANGED <<state, store>>
                 [] op = "stats" ->
                      /\ Release(c, get_stats(search_engine.value))
                      /\ UNCHANGED <<state, store, poisoned>>
    /\ UNCHANGED <<dirExists, writerLock, pending>>

\* the second half of update_item: add_item (178) with its commit
update_add(c) ==
    /\ call[c].pc = "deleted"
    /\ Commit(c, add_item(state[1], store[1].docs, call[c].arg[1]))
    /\ UNCHANGED <<dirExists, writerLock, pending>>

\* The process ends (exit or crash) at any point: what is in memory is
\* gone, the directory lock is released, the committed store stays.
ProcessExit ==
    /\ state' = None
    /\ pending' = [c \in Callers |-> None]
    /\ writerLock' = 0
    /\ poisoned' = FALSE
    /\ lockHolder' = None
    /\ call' = [c \in Callers |-> Idle]
    /\ ret' = Return("exit", "", <<>>, Ok(<<>>))
    /\ UNCHANGED <<dirExists, store>>

NextLock ==
    \/ \E c \in Callers :
          /\ call[c] = Idle
          /\ init_search_engine_new(c, "none")
          /\ UNCHANGED <<lockHolder, call>>
    \/ \E c \in Callers :
          /\ lockHolder = None
          /\ init_search_engine_store(c)
          /\ UNCHANGED <<lockHolder, call>>
    \/ \E c \in Callers, req \in Requests : Invoke(c, req)
    \/ \E c \in Callers : lock(c)
    \/ \E c \in Callers : run(c)
    \/ \E c \in Callers : update_add(c)
    \/ ReaderReload /\ UNCHANGED <<lockHolder, call>>
    \/ ProcessExit

SpecLock == Init /\ [][NextLock]_vars

(***************************************************************************)
(* The mutations with failing disk I/O: writer.add_document(..)? and       *)
(* writer.commit()? return the error to the caller; nothing is rolled back *)
(***************************************************************************)
\* the longest writer buffer left behind by failed calls
MaxPending == 1

\* what can fail: the hand-over of the document to the writer, the commit
\* with the buffered operations left in the writer, and the commit with
\* the indexing workers lost (their buffered documents are gone, the
\* queued deletes stay)
IoFaults == {"none", "add_document", "commit", "commit_workers"}

IoItems == {ItemANew, ItemB}

RECURSIVE DeletesOf(_)
DeletesOf(writer) ==
    IF writer = <<>> THEN <<>>
    ELSE (IF Head(writer).op = "add" THEN <<>> ELSE <<Head(writer)>>) \o DeletesOf(Tail(writer))

\* a commit that fails with the operations w buffered
commit_io(engine, docs, w, fault) ==
    [engine |-> [engine EXCEPT !.writer = IF fault = "commit" THEN w ELSE DeletesOf(w)],
     docs |-> docs,
     result |-> Err("commit failed")]

\* add_item (154-170) with the outcome of its two `?`
add_item_io(engine, docs, item, fault) ==
    LET w == add_document(engine.writer, MakeDoc(item))
    IN IF fault = "none" THEN add_item(engine, docs, item)
       ELSE IF fault = "add_document"
       THEN [engine |-> engine, docs |-> docs, result |-> Err("add_document failed")]
       ELSE commit_io(engine, docs, w, fault)

\* update_item (172-180): the delete is queued before add_item can fail
update_item_io(engine, docs, item, fault) ==
    LET deleted == update_item_delete(engine, docs, item)
    IN add_item_io(deleted.engine, deleted.docs, item, fault)

\* delete_item (182-187)
delete_item_io(engine, docs, item_id, fault) ==
    LET term == Term(engine.fields["id"], <<item_id>>)
        w == delete_term(engine.writer, term)
    IN IF fault = "none" THEN delete_item(engine, docs, item_id)
       ELSE commit_io(engine, docs, w, fault)

\* clear_index (317-321)
clear_index_io(engine, docs, fault) ==
    LET w == delete_all_documents(engine.writer)
    IN IF fault = "none" THEN clear_index(engine, docs)
       ELSE commit_io(engine, docs, w, fault)

\* search (189-277) with the outcome of the `?` of searcher.doc (257):
\* reading the stored document of the first hit fails
DocFault(fault, r) ==
    IF fault = "doc" /\ r.ok /\ r.value # <<>> THEN Err("doc failed") ELSE r

search_io(engine, query, fault) == DocFault(fault, search(engine, query))

search_items_io(query, fault) ==
    LET search_engine == ok_or_not_initialized(state) IN
    IF poisoned THEN Panicked("search", query)
    ELSE IF ~search_engine.ok THEN Fail("search", query, search_engine)
    ELSE /\ ret' = Return("search", "", query, search_io(search_engine.value, query, fault))
         /\ poisoned' = IsPanic(ret'.result)
         /\ UNCHANGED <<dirExists, store, writerLock, state, pending>>

\* a command on the initialized engine, with the outcome r of its method
ApplyIo(op, arg, fault, r) ==
    /\ IsSome(state)
    /\ ~poisoned
    /\ Len(r.docs) <= MaxDocs
    /\ Len(r.engine.writer) <= MaxPending
    /\ Apply(op, arg, r)
    /\ UNCHANGED <<lockHolder, call>>

NextIo ==
    \/ \E c \in Callers :
          init_search_engine_new(c, "none") /\ UNCHANGED <<lockHolder, call>>
    \/ \E c \in Callers :
          init_search_engine_store(c) /\ UNCHANGED <<lockHolder, call>>
    \/ \E item \in IoItems, fault \in IoFaults :
          ApplyIo("add", item, fault,
                  add_item_io(state[1], store[1].docs, item, fault))
    \/ \E item \in IoItems, fault \in IoFaults :
          ApplyIo("update", item, fault,
                  update_item_io(state[1], store[1].docs, item, fault))
    \/ \E item_id \in {"a"}, fault \in {"none", "commit"} :
          ApplyIo("delete", item_id, fault,
                  delete_item_io(state[1], store[1].docs, item_id, fault))
    \/ \E fault \in {"none", "commit"} :
          ApplyIo("clear", <<>>, fault,
                  clear_index_io(state[1], store[1].docs, fault))
    \/ \E fault \in {"none", "doc"} :
          /\ search_items_io(SearchQuery(<<"*">>, None, None, None), fault)
          /\ UNCHANGED <<lockHolder, call>>
    \/ ReaderReload /\ UNCHANGED <<lockHolder, call>>

SpecIo == Init /\ [][NextIo]_vars

(***************************************************************************)
(* Properties                                                              *)
(***************************************************************************)
\* the committed (live) documents of the store
Docs == IF IsSome(store) THEN store[1].docs ELSE <<>>

\* the engine as a search sees it once the reader has reloaded
Reloaded(engine) == [engine EXCEPT !.reader = Docs]

\* the words of a text: its lower-cased runs of alphanumeric characters
Words(text) == Range(Tokenize("default", text))

\* the words of a document's indexed text fields
DocWords(d) == UNION {Words(d[f]) : f \in DefaultFields}

\* The query's text matches the document's indexed text: it is a query
\* without words that finds the document ("*" finds every document), or
\* one of its words is a word of one of the document's indexed text fields.
TextMatchesDoc(query, d) ==
    LET parsed == parse_query(query.query)
    IN IF parsed.ok THEN Matches(create_schema, parsed.value, d)
       ELSE Words(query.query) \cap DocWords(d) # {}

\* the query's text matches the item's indexed text
TextMatchesItem(query, item) == TextMatchesDoc(query, MakeDoc(item))

\* searches used to observe the index: the commands' queries and the query
\* of all documents
Probes == SearchQueries \cup {SearchQuery(<<"*">>, None, None, None)}

\* C1: the committed index holds at most one live document for each id.
C1_OneLivePerId ==
    \A id \in Ids : Cardinality(LiveWithId(Docs, id)) <= 1

\* C2: after update(item) has succeeded, a search without filters returns
\* item.id only when the query matches the new item's text, and a search
\* for a word of the new item's text returns item.id.
C2_UpdateReplaces ==
    (ret.op = "update" /\ ret.result.ok) =>
        LET item == ret.arg[1] IN
        /\ \A query \in Probes :
              LET r == search(Reloaded(state[1]), query)
              IN (r.ok /\ item.id \in Range(ResultIds(r))) => TextMatchesItem(query, item)
        /\ \A w \in DocWords(MakeDoc(item)) :
              LET r == search(Reloaded(state[1]), SearchQuery(w, None, None, None))
              IN r.ok /\ item.id \in Range(ResultIds(r))

\* C3: after delete(id) has succeeded the document is removed: the store
\* holds no document with that id, no search returns it and stats does not
\* count it.
C3_DeleteRemoves ==
    (ret.op = "delete" /\ ret.result.ok) =>
        LET item_id == ret.arg[1] IN
        /\ LiveWithId(Docs, item_id) = {}
        /\ \A query \in Probes :
              LET r == search(Reloaded(state[1]), query)
              IN r.ok => item_id \notin Range(ResultIds(r))

\* C4: on an initialized engine, delete(id) for an id without a live
\* document returns success and leaves the live documents unchanged; a
\* delete that follows a delete succeeds as well.
C4_DeleteIdempotent ==
    [][(IsSome(state) /\ ret'.op = "delete") =>
          /\ LiveWithId(Docs, ret'.arg[1]) = {} => (ret'.result.ok /\ Docs' = Docs)
          /\ ret.op = "delete" => ret'.result.ok]_vars

C4_Witness ==
    /\ IsSome(state)
    /\ ret.op = "delete" /\ ret.result.ok
    /\ LiveWithId(Docs, ret.arg[1]) = {}
    /\ Docs # <<>>

\* C5: once add(item) has returned success, the next search for a word of
\* one of the item's indexed text fields returns item.id.
C5_AddSearchRoundTrip ==
    (ret.op = "add" /\ ret.result.ok) =>
        LET item == ret.arg[1]
        IN \A w \in DocWords(MakeDoc(item)) :
              LET r == search(state[1], SearchQuery(w, None, None, None))
              IN r.ok /\ item.id \in Range(ResultIds(r))

MutatingOrQueryOps == {"add", "update", "delete", "search", "clear", "stats"}

\* C6: while no init has succeeded, add, update, delete, search, clear and
\* stats each return the error "Search engine not initialized" and change
\* nothing: the state stays empty and the store is not written.
C6_NotInitialized ==
    [][(state = None /\ ret'.op \in MutatingOrQueryOps) =>
          /\ ret'.result = Err("Search engine not initialized")
          /\ UNCHANGED <<dirExists, store, writerLock, state, pending, poisoned>>]_vars

C6_Witness ==
    /\ state = None
    /\ IsSome(store)
    /\ ret.op = "add"
    /\ ret.result = Err("Search engine not initialized")

\* C7: init on a location without a store (and with no failure of the
\* environment) builds an engine and creates a new empty store there.
C7_InitCreatesStore ==
    [][\A c \in Callers :
          (~IsSome(store) /\ init_search_engine_new(c, "none")) =>
              /\ IsSome(pending'[c])
              /\ store' = Some([schema |-> create_schema, docs |-> <<>>])]_vars

\* C8: at most one writer exists for the index path; an init issued while
\* an engine is initialized, or while another init holds a new engine,
\* fails with the lock error, and the initialized engine and its committed
\* documents stay in place.
C8_SingleWriter ==
    [][/\ writerLock' <= 1
       /\ (IsSome(state) /\ ret'.op = "init") =>
             (~ret'.result.ok /\ state' = state /\ store' = store)
       /\ \A c \in Callers :
             (/\ init_search_engine_new(c, "none")
              /\ IsSome(state) \/ \E d \in Callers \ {c} : IsSome(pending[d])) =>
                 /\ ret'.result.err = "LockBusy"
                 /\ UNCHANGED <<store, writerLock, state, pending>>]_vars

C8_Witness ==
    /\ IsSome(state)
    /\ writerLock = 1
    /\ Docs # <<>>
    /\ ret.op = "init"
    /\ ret.result.err = "LockBusy"

\* C9: an init that fails leaves the shared state exactly as it was, and
\* keeps no engine or writer of its own.
C9_FailedInitLeavesState ==
    [][(ret'.op = "init" /\ ~ret'.result.ok) =>
          (state' = state /\ pending' = pending /\ writerLock' = writerLock)]_vars

C9_Witness ==
    /\ state = None
    /\ \A c \in Callers : pending[c] = None
    /\ writerLock = 0
    /\ ret.op = "init"
    /\ ~ret.result.ok

\* C10: with a store on disk whose schema differs from the compiled schema,
\* no engine exists: init fails and the state stays empty.
C10_SchemaMismatchFails ==
    (IsSome(store) /\ store[1].schema # create_schema) =>
        (state = None /\ \A c \in Callers : pending[c] = None)

\* the total number of documents a stats result reports over all segments
StatsTotal(stats) == SumOver(LAMBDA i : stats[i], DOMAIN stats)

\* C13: after clear() has returned success the engine is still initialized,
\* stats() reports a total of zero documents and every search returns an
\* empty result list.
C13_ClearEmpties ==
    (ret.op = "clear" /\ ret.result.ok) =>
        /\ IsSome(state)
        /\ StatsTotal(get_stats(state[1]).value) = 0
        /\ \A query \in Probes :
              LET r == search(state[1], query) IN r.ok => r.value = <<>>

(***************************************************************************)
(* Properties of search, checked in SpecSearch                             *)
(***************************************************************************)
\* the last step ran a search in the engine (its lock was not poisoned)
Searched == ret.op = "search" /\ ret.result.err # "PoisonError"

\* the snapshot the last search read
Snapshot == state[1].reader

\* the ids of the snapshot's documents that satisfy P
IdsWhere(P(_)) == {Snapshot[i].id : i \in {j \in 1..Len(Snapshot) : P(Snapshot[j])}}

\* the tag occurs in the document's flattened tags field, in any letter case
HasTag(d, tag) == ContainsIgnoreCase(d.tags, tag)

\* C14: a search with a tags filter returns exactly the documents that
\* match the text query and hold every listed tag in their flattened tags
\* field.
C14_TagFilterAnd ==
    (Searched /\ IsSome(ret.arg[1].tags)) =>
        LET query == ret.arg[1]
            wanted(d) == /\ TextMatchesDoc(query, d)
                         /\ \A k \in 1..Len(query.tags[1]) : HasTag(d, query.tags[1][k])
        IN ret.result.ok /\ Range(ResultIds(ret.result)) = IdsWhere(wanted)

Min(a, b) == IF a < b THEN a ELSE b

\* C15: for every limit (20 when absent) a search without filters returns
\* exactly min(limit, number of matching documents) results, in order of
\* non-increasing score.
C15_LimitEnforced ==
    (/\ Searched
     /\ ret.arg[1].fields = None /\ ret.arg[1].tags = None
     /\ ret.arg[1].date_from = None /\ ret.arg[1].date_to = None
     /\ parse_query(ret.arg[1].query).err # "SyntaxError") =>
        LET query == ret.arg[1]
            limit == unwrap_or(query.limit, 20)
            matching == {i \in 1..Len(Snapshot) : TextMatchesDoc(query, Snapshot[i])}
            hits == ret.result.value
        IN /\ ret.result.ok
           /\ Len(hits) = Min(limit, Cardinality(matching))
           /\ \A i, j \in 1..Len(hits) : i < j => hits[i].score >= hits[j].score

\* the query's text matches the document in one of the named fields that
\* are indexed text fields (a query without words that finds the document,
\* as "*" does, matches in each of them)
NamedFieldMatches(query, d) ==
    \E f \in Range(query.fields[1]) \cap DefaultFields :
        LET parsed == parse_query(query.query)
        IN IF parsed.ok THEN Matches(create_schema, parsed.value, d)
           ELSE Words(query.query) \cap Words(d[f]) # {}

\* C16: with fields set, a search returns only documents in which the query
\* text matches in at least one of the named indexed fields.
C16_FieldsRestrict ==
    (Searched /\ ret.result.ok /\ IsSome(ret.arg[1].fields)) =>
        LET query == ret.arg[1]
            wanted(d) == NamedFieldMatches(query, d)
        IN Range(ResultIds(ret.result)) \subseteq IdsWhere(wanted)

\* the query with the names that are no field of the schema dropped from fields
KnownOnly(query) ==
    LET IsKnown(field_name) == field_name \in FieldNames
    IN [query EXCEPT !.fields = Some(SelectSeq(query.fields[1], IsKnown))]

\* C17: a search whose fields list holds names that are not in the schema
\* gives the result of the search with only the known names (same outcome,
\* same ids in the same order): an unknown name is no error.
C17_UnknownFieldsIgnored ==
    (Searched /\ IsSome(ret.arg[1].fields)) =>
        LET r == search(state[1], KnownOnly(ret.arg[1]))
        IN /\ ret.result.ok = r.ok
           /\ ret.result.err = r.err
           /\ ret.result.ok => ResultIds(ret.result) = ResultIds(r)

C17_Witness ==
    /\ Searched /\ ret.result.ok
    /\ IsSome(ret.arg[1].fields)
    /\ "nonexistent_field" \in Range(ret.arg[1].fields[1])
    /\ "memo" \in Range(ret.arg[1].fields[1])
    /\ Len(ret.result.value) = 2

\* C18: a search whose query string is malformed returns an error, with
\* fields unset and with fields set.
C18_MalformedQueryErrors ==
    (Searched /\ parse_query(ret.arg[1].query).err = "SyntaxError") => ~ret.result.ok

\* C20: a search with date_from = d or date_to = d returns exactly the
\* documents that match the text query and whose created_at equals d (both
\* bounds when both are set).
C20_DateFilterExact ==
    (Searched /\ (IsSome(ret.arg[1].date_from) \/ IsSome(ret.arg[1].date_to))) =>
        LET query == ret.arg[1]
            wanted(d) == /\ TextMatchesDoc(query, d)
                         /\ IsSome(query.date_from) => d.created_at = query.date_from[1]
                         /\ IsSome(query.date_to) => d.created_at = query.date_to[1]
        IN ret.result.ok /\ Range(ResultIds(ret.result)) = IdsWhere(wanted)

(***************************************************************************)
(* Properties of the step-by-step commands, checked in SpecLock            *)
(***************************************************************************)
\* C11: the committed documents survive the exit of the process and the
\* next init on the same directory unchanged, and in the engine that init
\* installs every committed document is found by the search for each word
\* of its indexed texts, while the search for all documents returns a hit
\* for each committed document and for no other.
C11_DurableAcrossReopen ==
    [][/\ ret'.op = "exit" => store' = store
       /\ \A c \in Callers :
             (IsSome(store) /\ ~IsSome(pending[c]) /\ IsSome(pending'[c])) =>
                 (store' = store /\ pending'[c][1].reader = Docs)
       /\ (ret'.op = "init" /\ ret'.result.ok) =>
             /\ Docs' = Docs
             /\ state'[1].reader = Docs
             /\ \A i \in 1..Len(Docs) : \A word \in DocWords(Docs[i]) :
                   LET r == search(state'[1], SearchQuery(word, None, None, None))
                   IN r.ok /\ Docs[i].id \in Range(ResultIds(r))
             /\ LET r == search(state'[1], SearchQuery(<<"*">>, None, None, None))
                IN /\ r.ok
                   /\ Len(r.value) = Len(Docs)
                   /\ \A i \in 1..Len(Docs) : r.value[i].id = Docs[i].id]_vars

\* C12: at most one command is between its lock() and its return, it is
\* the holder of the Mutex, and a search runs only while no other command
\* is inside and the writer holds no buffered operation of a mutation.
C12_Serialized ==
    [][/\ Cardinality({c \in Callers : call'[c].pc \in Inside}) <= 1
       /\ \A c \in Callers : call'[c].pc \in Inside => lockHolder' = Some(c)
       /\ \A c \in Callers :
             (call[c].pc = "locked" /\ call[c].op = "search" /\ ret'.op = "search") =>
                 /\ \A d \in Callers \ {c} : call[d].pc \notin Inside
                 /\ IsSome(state) => state[1].writer = <<>>]_vars

C12_Witness ==
    /\ call["c1"].pc = "deleted"
    /\ lockHolder = Some("c1")
    /\ state[1].writer # <<>>
    /\ call["c2"].pc = "called"
    /\ call["c2"].op = "search"

\* before held a live document with the id and after holds none
Missing(before, after, id) ==
    LiveWithId(before, id) # {} /\ LiveWithId(after, id) = {}

\* C19: update commits once.  Its first half only buffers the delete:
\* committed documents and reader snapshot stay as they were; a crash
\* after it leaves the committed documents as before the update; the
\* second half commits delete and add together, so that no step of an
\* update leaves the store without a document for item.id.
C19_UpdateSingleCommit ==
    [][\A c \in Callers :
          (call[c].op = "update" /\ call[c].pc \in Inside) =>
              LET item == call[c].arg[1] IN
              /\ (call[c].pc = "locked" /\ call'[c].pc = "deleted") =>
                    /\ store' = store
                    /\ state'[1].reader = state[1].reader
                    /\ state'[1].writer # <<>>
              /\ (call[c].pc = "deleted" /\ ret'.op = "exit") => store' = store
              /\ (call[c].pc = "deleted" /\ ret'.op = "update") =>
                    /\ ret'.result.ok
                    /\ MakeDoc(item) \in Range(Docs')
                    /\ state'[1].writer = <<>>
              /\ ~Missing(Docs, Docs', item.id)]_vars

C19_Witness ==
    /\ call["c1"].pc = "deleted"
    /\ call["c1"].op = "update"
    /\ store[1].schema = OtherSchema
    /\ LiveWithId(Docs, call["c1"].arg[1].id) # {}
    /\ MakeDoc(call["c1"].arg[1]) \notin Range(Docs)
    /\ state[1].writer # <<>>

\* the fields a highlight may name, and the fields matched_fields may hold
HighlightFields == <<"ocr_text", "memo", "location_name", "group_title">>

CheckedFields == {"ocr_text", "memo", "tags", "location_name", "group_title"}

\* the position of a field in HighlightFields
HighlightIndex(f) == CHOOSE k \in 1..Len(HighlightFields) : HighlightFields[k] = f

\* text holds the query in any letter case: some run of characters of the
\* lower-cased text is the lower-cased query
InAnyCase(text, query) ==
    LET hay == Lower(text)
        needle == Lower(query)
    IN \E i \in 1..(Len(hay) - Len(needle) + 1) :
           SubSeq(hay, i, i + Len(needle) - 1) = needle

\* highlights and matched_fields of hit h are those the claim gives for
\* document d and the raw query text
HitDescribes(h, d, text) ==
    LET holds(f) == InAnyCase(d[f], text)
        named == [k \in 1..Len(h.highlights) |-> h.highlights[k][1]]
    IN /\ Range(named) = {f \in Range(HighlightFields) : holds(f)}
       /\ \A k \in 1..Len(named) : h.highlights[k] = <<named[k], d[named[k]]>>
       /\ \A j, k \in 1..Len(named) :
             j < k => HighlightIndex(named[j]) < HighlightIndex(named[k])
       /\ Range(h.matched_fields) = {f \in CheckedFields : holds(f)}
       /\ Len(h.matched_fields) = Cardinality(Range(h.matched_fields))
       /\ Range(named) = Range(h.matched_fields) \ {"tags"}

\* C21: every hit of a search carries, for a document of the snapshot with
\* its id, exactly one highlight "<field>: <stored text>" for each of
\* ocr_text, memo, location_name, group_title (in that order) whose stored
\* text contains the raw query text in any letter case, and as
\* matched_fields exactly the fields among those four and tags that pass
\* the same test; the highlighted fields are matched_fields without tags.
C21_HighlightsAndMatchedFields ==
    (Searched /\ ret.result.ok) =>
        \A n \in 1..Len(ret.result.value) :
            LET h == ret.result.value[n] IN
            \E i \in 1..Len(Snapshot) :
                /\ Snapshot[i].id = h.id
                /\ HitDescribes(h, Snapshot[i], ret.arg[1].query)

C21_Witness ==
    /\ Searched /\ ret.result.ok
    /\ ret.arg[1].query = <<"*", " ", "O", "R", " ", "*">>
    /\ Len(ret.result.value) = 2
    /\ ret.result.value[1].id = "b"
    /\ ret.result.value[1].highlights = <<>>
    /\ ret.result.value[1].matched_fields = <<>>
    /\ ret.result.value[2].id = "c"
    /\ ret.result.value[2].highlights = << <<"memo", <<"*", " ", "o", "r", " ", "*">> >> >>
    /\ ret.result.value[2].matched_fields = <<"memo", "tags">>

(***************************************************************************)
(* Properties of the mutations with failing disk I/O, checked in SpecIo    *)
(***************************************************************************)
Mutators == {"add", "update", "delete", "clear"}

\* the committed documents with an id
DocsWithId(docs, id) == {docs[i] : i \in LiveWithId(docs, id)}

\* the id an add, update or delete was called for
CallId(r) == IF r.op = "delete" THEN r.arg[1] ELSE r.arg[1].id

\* C22: a mutating call that returns an error leaves the committed
\* documents as they were, and the successful add, update or delete on
\* another id that follows it leaves the documents of every other id as
\* they were (the failed call's document does not appear, the documents it
\* was to delete do not disappear).
C22_FailedCallChangesNothing ==
    [][/\ (IsSome(state) /\ ret'.op \in Mutators /\ ~ret'.result.ok) => Docs' = Docs
       /\ (/\ IsSome(state)
           /\ ret.op \in Mutators /\ ~ret.result.ok
           /\ ret'.op \in {"add", "update", "delete"} /\ ret'.result.ok) =>
              \A id \in Ids \ {CallId(ret')} :
                  DocsWithId(Docs', id) = DocsWithId(Docs, id)]_vars

\* C23: a search or stats step leaves the store, the engine (its writer's
\* buffered operations included) and the initialized state as they were,
\* and no step other than a mutating command changes the result of any
\* search, so that two identical searches with no mutation committed
\* between them return the same results.
C23_SearchAndStatsReadOnly ==
    [][/\ ret'.op \in {"search", "stats"} => (store' = store /\ state' = state)
       /\ (ret'.op \notin Mutators /\ IsSome(state) /\ IsSome(state')) =>
             \A query \in Probes :
                 search(state'[1], query) = search(state[1], query)]_vars

\* C24: no command leaves the lock held or unusable: when a search has
\* returned, the Mutex is free and not poisoned, and the call was not
\* itself turned away by a poisoned Mutex.
C24_LockReleasedAndUsable ==
    ret.op = "search" =>
        /\ lockHolder = None
        /\ ~poisoned
        /\ ret.result.err # "PoisonError"

====
